---- MODULE Spec2Model ----
(***************************************************************************)
(* A model of coderev: the in-codespace API server (src/server/            *)
(* api_server.py) and the orchestrating client (src/client/src/coderev).   *)
(*                                                                         *)
(* Three subsystems share this module, each with its own next-state        *)
(* relation over its own variables:                                        *)
(*   Spec / LiveSpec  the request executor: /ask and /ask/stream handlers, *)
(*                    the claude_lock gate and the agent subprocesses      *)
(*   AuthSpec         POST /auth-token and the client's get_auth_token     *)
(*   CodespaceSpec    CodespaceManager.find_or_create                      *)
(***************************************************************************)
EXTENDS Naturals, Sequences, FiniteSets, TLC

(***************************************************************************)
(* Bounds of the model.                                                    *)
(***************************************************************************)
\* Number of HTTP requests sent to /ask and /ask/stream.
NumReq == 2

Reqs == 1..NumReq

(***************************************************************************)
(* Strings are sequences of characters, so that prefix tests and slices    *)
(* are computed as the code computes them.                                 *)
(***************************************************************************)
Str_Bearer == <<"B", "e", "a", "r", "e", "r", " ">>

\* len("Bearer "), the slice offset of authorization[7:]
BearerLen == 7

Token1 == <<"t", "1">>
Token2 == <<"t", "2">>

StartsWith(s, p) == Len(s) >= Len(p) /\ SubSeq(s, 1, Len(p)) = p

\* s[n:]
DropPrefix(s, n) == SubSeq(s, n + 1, Len(s))

\* An Authorization header as FastAPI hands it to the handler: None when the
\* request carries none, otherwise its text.
NoHeader == [present |-> FALSE, text |-> <<>>]

HeaderOf(s) == [present |-> TRUE, text |-> s]

Headers ==
    { NoHeader,
      HeaderOf(<<>>),
      HeaderOf(<<"B", "a", "s", "i", "c", " ">> \o Token1),
      HeaderOf(<<"b", "e", "a", "r", "e", "r", " ">> \o Token1),
      HeaderOf(Str_Bearer),
      HeaderOf(Str_Bearer \o Token1),
      HeaderOf(Str_Bearer \o Token2),
      HeaderOf(Str_Bearer \o Token1 \o <<" ">>) }

VARIABLES
    \* ---- server: request executor ----
    auth_token,     \* AUTH_TOKEN, the token the server process is configured with
    pc,             \* where each request's handler stands
    kind,           \* "ask" (buffered) or "stream", once the request has arrived
    hdr,            \* the Authorization header the request carried
    status,         \* the HTTP status the request was answered with, 0 before
    locked,         \* claude_lock._locked
    waiters,        \* claude_lock._waiters, in arrival order
    gate,           \* the requests that entered async with claude_lock, in order
    proc,           \* the request's agent subprocess: none, alive, exited, killed
    stdout_open,    \* the streaming subprocess has not closed its stdout yet
    tres,           \* what the subprocess.run worker thread handed to the handler
    sse,            \* the terminal frames a streaming response has emitted
    acquired,       \* how often the request's handler acquired claude_lock
    released,       \* how often the request's handler released claude_lock
    \* ---- server: POST /auth-token ----
    auth_token_claimed, \* the global auth_token_claimed
    epoch,          \* how often the server process has been restarted
    grants,         \* 200 answers of /auth-token since the server started
    denials,        \* 410 answers of /auth-token since the server started
    \* ---- client: get_auth_token ----
    cache,          \* ~/.cache/coderev/<name>.json: the token cached per name
    cpc,            \* where each get_auth_token call stands
    cname,          \* the codespace name the call was made for
    cresp,          \* what the call's claim request came back with
    ctoken,         \* the token in the claim's 200 answer
    cret,           \* the token the call returned
    cerr,           \* the error the call raised
    cread,          \* the call has read the cache
    cepoch,         \* the server process that answered the call's claim (200 or 410)
    \* ---- client: CodespaceManager.find_or_create ----
    sessions,       \* the codespaces the remote API lists, in its order
    now,            \* time.monotonic()
    fpc,            \* where find_or_create stands
    fname,          \* the name find_or_create starts, creates or waits for
    ffound,         \* what find returned
    fret,           \* the name find_or_create returned
    ferr,           \* the error find_or_create raised
    deadline,       \* wait_until_available's deadline
    n_create,       \* create requests sent
    n_start,        \* start requests sent
    n_poll,         \* status requests sent
    poll_lat,       \* how long the last status request took
    last_state,     \* state, the local of wait_until_available's loop
    \* ---- server: one /ask/stream response body, line by line ----
    gpc,            \* where generate() stands
    gproc,          \* the agent subprocess: none, alive, exited, killed
    gopen,          \* the subprocess has its stdout open
    gpipe,          \* the lines written to stdout and not read yet
    gwritten,       \* every line the subprocess has written, in order
    gframes,        \* the payloads of the frames generate() has yielded
    gclock,         \* minutes since the subprocess was spawned
    gwait,          \* gclock when wait_for(proc.wait()) was entered
    \* ---- client: Tunnel ----
    t_handle,       \* self._proc: NoHandle or the index of a process in t_procs
    t_procs,        \* the gh processes the tunnel has spawned: alive, exited, killed
    t_hist,         \* the open and close calls made so far, in order
    t_err,          \* the error the last open or close call raised
    t_scope,        \* where the with statement of cli.ask stands
    t_exit,         \* how the body of the with statement ended
    \* ---- server: _build_claude_cmd ----
    preq,           \* the AskRequest received
    pcmd            \* the command built for it, per mode

srvVars == <<pc, kind, hdr, status, locked, waiters, gate, proc, stdout_open, tres,
             sse, acquired, released>>

claimVars == <<auth_token_claimed, epoch, grants, denials>>

callVars == <<cache, cpc, cname, cresp, ctoken, cret, cerr, cread, cepoch>>

csVars == <<sessions, now, fpc, fname, ffound, fret, ferr, deadline, n_create,
            n_start, n_poll, poll_lat, last_state>>

relayVars == <<gpc, gproc, gopen, gpipe, gwritten, gframes, gclock, gwait>>

\* What neither the request executor nor the token exchange touches.
tunnelVars == <<t_handle, t_procs, t_hist, t_err, t_scope, t_exit>>

promptVars == <<preq, pcmd>>

otherVars == <<csVars, relayVars, tunnelVars, promptVars>>

\* What no step of find_or_create touches.
nonCsVars == <<auth_token, srvVars, claimVars, callVars, relayVars, tunnelVars,
               promptVars>>

\* What no step of the line relay touches.
nonRelayVars == <<auth_token, srvVars, claimVars, callVars, csVars, tunnelVars,
                  promptVars>>

\* What no call on the tunnel touches.
nonTunnelVars == <<auth_token, srvVars, claimVars, callVars, csVars, relayVars,
                   promptVars>>

\* What building a command does not touch.
nonPromptVars == <<auth_token, srvVars, claimVars, callVars, csVars, relayVars,
                   tunnelVars>>

nonSrvVars == <<claimVars, callVars, otherVars>>

vars == <<auth_token, srvVars, claimVars, callVars, csVars, relayVars, tunnelVars,
          promptVars>>

\* Mutant of VerifyAuth: the credential is accepted when it starts with the
\* token instead of when it equals it.
VerifyAuthPrefixMatch(authorization, token) ==
    IF \/ ~authorization.present
       \/ authorization.text = <<>>
       \/ ~StartsWith(authorization.text, Str_Bearer)
    THEN 401
    ELSE IF ~StartsWith(DropPrefix(authorization.text, BearerLen), token)
         THEN 403
         ELSE 0

(***************************************************************************)
(* _verify_auth: 0 when the header passes, otherwise the status raised.    *)
(***************************************************************************)
VerifyAuth(authorization, token) ==
    IF \/ ~authorization.present
       \/ authorization.text = <<>>
       \/ ~StartsWith(authorization.text, Str_Bearer)
    THEN 401
    ELSE IF DropPrefix(authorization.text, BearerLen) # token
         THEN 403
         ELSE 0

(***************************************************************************)
(* What a buffered subprocess can hand back: an exit code and the kind of  *)
(* text on its stdout.                                                     *)
(***************************************************************************)
ExitCodes == {0, 1}

\* empty: ""; object: a JSON object; nonobject: JSON that is not an object;
\* garbage: text json.loads rejects
StdoutKinds == {"empty", "object", "nonobject", "garbage"}

Completed(rc, out) == [t |-> "completed", rc |-> rc, out |-> out]

NoResult == [t |-> "none", rc |-> 0, out |-> "empty"]

TimeoutExpired == [t |-> "TimeoutExpired", rc |-> 0, out |-> "empty"]

SpawnError == [t |-> "OSError", rc |-> 0, out |-> "empty"]

\* The status /ask answers with once the worker thread has handed back res.
AskStatus(res) ==
    IF res.t # "completed" THEN 500
    ELSE IF res.rc # 0 /\ res.out = "empty" THEN 502
    ELSE IF res.out \in {"empty", "garbage"} THEN 502
    ELSE IF res.out = "nonobject" THEN 500
    ELSE 200

(***************************************************************************)
(* claude_lock = asyncio.Lock(): a flag and a FIFO of waiters.             *)
(***************************************************************************)
\* Mutant of LockAcquire: a free lock is taken at once, whoever waits.
LockAcquireBarging(r) ==
    /\ gate' = Append(gate, r)
    /\ IF ~locked
       THEN /\ locked' = TRUE
            /\ waiters' = waiters
            /\ acquired' = [acquired EXCEPT ![r] = @ + 1]
            /\ pc' = [pc EXCEPT ![r] = "locked"]
       ELSE /\ locked' = locked
            /\ waiters' = Append(waiters, r)
            /\ acquired' = acquired
            /\ pc' = [pc EXCEPT ![r] = "queued"]

\* async with claude_lock, on entry: take the lock when it is free and nobody
\* waits, otherwise queue behind the waiters.
LockAcquire(r) ==
    /\ gate' = Append(gate, r)
    /\ IF ~locked /\ waiters = <<>>
       THEN /\ locked' = TRUE
            /\ waiters' = waiters
            /\ acquired' = [acquired EXCEPT ![r] = @ + 1]
            /\ pc' = [pc EXCEPT ![r] = "locked"]
       ELSE /\ locked' = locked
            /\ waiters' = Append(waiters, r)
            /\ acquired' = acquired
            /\ pc' = [pc EXCEPT ![r] = "queued"]

\* async with claude_lock, on exit (normal or by exception): free the lock;
\* the first waiter is woken and takes it when it next runs.
LockRelease(r) ==
    /\ locked' = FALSE
    /\ released' = [released EXCEPT ![r] = @ + 1]

\* A woken waiter resumes inside acquire() and takes the lock.
LockWake(r) ==
    /\ pc[r] = "queued"
    /\ ~locked
    /\ waiters # <<>>
    /\ Head(waiters) = r
    /\ locked' = TRUE
    /\ waiters' = Tail(waiters)
    /\ acquired' = [acquired EXCEPT ![r] = @ + 1]
    /\ pc' = [pc EXCEPT ![r] = "locked"]
    /\ UNCHANGED <<nonSrvVars, auth_token, gate, kind, hdr, status, proc, stdout_open, tres, sse,
                   released>>

\* Requests are numbered in the order they reach the server.
NextToArrive(r) ==
    /\ pc[r] = "idle"
    /\ \A q \in Reqs : q < r => pc[q] # "idle"

(***************************************************************************)
(* POST /ask                                                               *)
(***************************************************************************)
\* ask(), up to its first suspension: _verify_auth, then async with claude_lock.
Ask(r, h) ==
    /\ NextToArrive(r)
    /\ kind' = [kind EXCEPT ![r] = "ask"]
    /\ hdr' = [hdr EXCEPT ![r] = h]
    /\ IF VerifyAuth(h, auth_token) # 0
       THEN /\ status' = [status EXCEPT ![r] = VerifyAuth(h, auth_token)]
            /\ pc' = [pc EXCEPT ![r] = "done"]
            /\ UNCHANGED <<locked, waiters, gate, acquired>>
       ELSE /\ LockAcquire(r)
            /\ UNCHANGED status
    /\ UNCHANGED <<nonSrvVars, auth_token, proc, stdout_open, tres, sse, released>>

\* _run_claude: the worker thread enters subprocess.run, which spawns the agent
\* (ok), or fails to (the handler gets the OSError on its next step).
RunClaude(r, ok) ==
    /\ pc[r] = "locked"
    /\ kind[r] = "ask"
    /\ IF ok
       THEN /\ proc' = [proc EXCEPT ![r] = "alive"]
            /\ pc' = [pc EXCEPT ![r] = "running"]
            /\ UNCHANGED tres
       ELSE /\ tres' = [tres EXCEPT ![r] = SpawnError]
            /\ pc' = [pc EXCEPT ![r] = "joined"]
            /\ UNCHANGED proc
    /\ UNCHANGED <<nonSrvVars, auth_token, gate, kind, hdr, status, locked, waiters, stdout_open,
                   sse, acquired, released>>

\* The buffered subprocess exits on its own; subprocess.run returns its
\* CompletedProcess to the handler if the handler still awaits it.
AskProcExit(r, rc, out) ==
    /\ kind[r] = "ask"
    /\ proc[r] = "alive"
    /\ proc' = [proc EXCEPT ![r] = "exited"]
    /\ IF pc[r] = "running"
       THEN /\ tres' = [tres EXCEPT ![r] = Completed(rc, out)]
            /\ pc' = [pc EXCEPT ![r] = "joined"]
       ELSE /\ rc = 0 /\ out = "empty"
            /\ UNCHANGED <<tres, pc>>
    /\ UNCHANGED <<nonSrvVars, auth_token, gate, kind, hdr, status, locked, waiters, stdout_open,
                   sse, acquired, released>>

\* subprocess.run(timeout=300) expires in the worker thread: it kills the
\* subprocess, reaps it and raises subprocess.TimeoutExpired.
RunnerTimeout(r) ==
    /\ kind[r] = "ask"
    /\ proc[r] = "alive"
    /\ proc' = [proc EXCEPT ![r] = "killed"]
    /\ IF pc[r] = "running"
       THEN /\ tres' = [tres EXCEPT ![r] = TimeoutExpired]
            /\ pc' = [pc EXCEPT ![r] = "joined"]
       ELSE UNCHANGED <<tres, pc>>
    /\ UNCHANGED <<nonSrvVars, auth_token, gate, kind, hdr, status, locked, waiters, stdout_open,
                   sse, acquired, released>>

\* Mutant of AskHandlerTimeout: the 504 is raised without leaving the lock
\* (acquire and release written by hand, the raise skipping the release).
AskHandlerTimeoutNoRelease(r) ==
    /\ kind[r] = "ask"
    /\ pc[r] = "running"
    /\ status' = [status EXCEPT ![r] = 504]
    /\ pc' = [pc EXCEPT ![r] = "done"]
    /\ UNCHANGED <<nonSrvVars, auth_token, gate, kind, hdr, locked, waiters, proc, stdout_open,
                   tres, sse, acquired, released>>

\* asyncio.wait_for(timeout=300) expires in the handler while the worker thread
\* is still inside subprocess.run: the await is cancelled (the thread is not),
\* asyncio.TimeoutError is caught and turned into 504, the lock is released.
AskHandlerTimeout(r) ==
    /\ kind[r] = "ask"
    /\ pc[r] = "running"
    /\ status' = [status EXCEPT ![r] = 504]
    /\ pc' = [pc EXCEPT ![r] = "done"]
    /\ LockRelease(r)
    /\ UNCHANGED <<nonSrvVars, auth_token, gate, kind, hdr, waiters, proc, stdout_open, tres, sse,
                   acquired>>

\* The handler resumes with what the worker thread handed back: an exception
\* leaves the async with block (500, or 502 from _run_claude), a
\* CompletedProcess leaves it normally and is then parsed.
AskFinish(r) ==
    /\ kind[r] = "ask"
    /\ pc[r] = "joined"
    /\ status' = [status EXCEPT ![r] = AskStatus(tres[r])]
    /\ tres' = [tres EXCEPT ![r] = NoResult]
    /\ pc' = [pc EXCEPT ![r] = "done"]
    /\ LockRelease(r)
    /\ UNCHANGED <<nonSrvVars, auth_token, gate, kind, hdr, waiters, proc, stdout_open, sse,
                   acquired>>

(***************************************************************************)
(* POST /ask/stream                                                        *)
(***************************************************************************)
\* ask_stream(): _verify_auth, then the StreamingResponse is returned; its
\* generator has not started.
AskStream(r, h) ==
    /\ NextToArrive(r)
    /\ kind' = [kind EXCEPT ![r] = "stream"]
    /\ hdr' = [hdr EXCEPT ![r] = h]
    /\ IF VerifyAuth(h, auth_token) # 0
       THEN /\ status' = [status EXCEPT ![r] = VerifyAuth(h, auth_token)]
            /\ pc' = [pc EXCEPT ![r] = "done"]
       ELSE /\ status' = [status EXCEPT ![r] = 200]
            /\ pc' = [pc EXCEPT ![r] = "respond"]
    /\ UNCHANGED <<nonSrvVars, auth_token, gate, locked, waiters, proc, stdout_open, tres, sse,
                   acquired, released>>

\* generate() starts: async with claude_lock.
Generate(r) ==
    /\ pc[r] = "respond"
    /\ LockAcquire(r)
    /\ UNCHANGED <<nonSrvVars, auth_token, kind, hdr, status, proc, stdout_open, tres, sse,
                   released>>

\* await asyncio.create_subprocess_exec(...): the agent is spawned (ok), or the
\* call raises and the exception leaves the generator through async with.
StreamSpawn(r, ok) ==
    /\ pc[r] = "locked"
    /\ kind[r] = "stream"
    /\ IF ok
       THEN /\ proc' = [proc EXCEPT ![r] = "alive"]
            /\ stdout_open' = [stdout_open EXCEPT ![r] = TRUE]
            /\ pc' = [pc EXCEPT ![r] = "reading"]
            /\ UNCHANGED <<locked, released>>
       ELSE /\ pc' = [pc EXCEPT ![r] = "done"]
            /\ LockRelease(r)
            /\ UNCHANGED <<proc, stdout_open>>
    /\ UNCHANGED <<nonSrvVars, auth_token, gate, kind, hdr, status, waiters, tres, sse, acquired>>

\* The streaming subprocess closes its stdout and keeps running (seen only by
\* a generator that is still reading).
StreamProcCloseStdout(r) ==
    /\ kind[r] = "stream"
    /\ pc[r] = "reading"
    /\ proc[r] = "alive"
    /\ stdout_open[r]
    /\ stdout_open' = [stdout_open EXCEPT ![r] = FALSE]
    /\ UNCHANGED <<nonSrvVars, auth_token, gate, pc, kind, hdr, status, locked, waiters, proc,
                   tres, sse, acquired, released>>

\* The streaming subprocess exits on its own, which closes its stdout.
StreamProcExit(r) ==
    /\ kind[r] = "stream"
    /\ proc[r] = "alive"
    /\ proc' = [proc EXCEPT ![r] = "exited"]
    /\ stdout_open' = [stdout_open EXCEPT ![r] = FALSE]
    /\ UNCHANGED <<nonSrvVars, auth_token, gate, pc, kind, hdr, status, locked, waiters, tres, sse,
                   acquired, released>>

\* async for line in proc.stdout: a line arrives whose bytes line.decode()
\* rejects; the UnicodeDecodeError is not caught and leaves the generator
\* through async with. Nothing kills the subprocess.
StreamDecodeError(r) ==
    /\ kind[r] = "stream"
    /\ pc[r] = "reading"
    /\ proc[r] = "alive"
    /\ stdout_open[r]
    /\ pc' = [pc EXCEPT ![r] = "done"]
    /\ LockRelease(r)
    /\ UNCHANGED <<nonSrvVars, auth_token, gate, kind, hdr, status, waiters, proc, stdout_open,
                   tres, sse, acquired>>

\* async for line in proc.stdout ends at end of file; the generator goes on to
\* await asyncio.wait_for(proc.wait(), timeout=120).
StreamEOF(r) ==
    /\ kind[r] = "stream"
    /\ pc[r] = "reading"
    /\ ~stdout_open[r]
    /\ pc' = [pc EXCEPT ![r] = "waiting"]
    /\ UNCHANGED <<nonSrvVars, auth_token, gate, kind, hdr, status, locked, waiters, proc,
                   stdout_open, tres, sse, acquired, released>>

\* proc.wait() returns: the [DONE] frame is emitted and the lock released.
StreamWaitReturn(r) ==
    /\ kind[r] = "stream"
    /\ pc[r] = "waiting"
    /\ proc[r] # "alive"
    /\ sse' = [sse EXCEPT ![r] = @ \o <<"[DONE]">>]
    /\ pc' = [pc EXCEPT ![r] = "done"]
    /\ LockRelease(r)
    /\ UNCHANGED <<nonSrvVars, auth_token, gate, kind, hdr, status, waiters, proc, stdout_open,
                   tres, acquired>>

\* wait_for(proc.wait(), timeout=120) expires: proc.kill(), the timeout error
\* frame, the [DONE] frame, and the lock is released.
StreamWaitTimeout(r) ==
    /\ kind[r] = "stream"
    /\ pc[r] = "waiting"
    /\ proc[r] = "alive"
    /\ proc' = [proc EXCEPT ![r] = "killed"]
    /\ sse' = [sse EXCEPT ![r] = @ \o <<"timeout", "[DONE]">>]
    /\ pc' = [pc EXCEPT ![r] = "done"]
    /\ LockRelease(r)
    /\ UNCHANGED <<nonSrvVars, auth_token, gate, kind, hdr, status, waiters, stdout_open, tres,
                   acquired>>

(***************************************************************************)
(* POST /auth-token and the client's get_auth_token.                       *)
(***************************************************************************)
\* Calls of get_auth_token (client runs).
NumCalls == 3

\* Restarts of the server process.
MaxRestarts == 1

Calls == 1..NumCalls

\* Codespace names the client is run for.
Names == {"cs1", "cs2"}

Digits == <<"1", "2", "3", "4", "5", "6", "7", "8", "9">>

\* The token the server process is configured with after its e-th restart,
\* when the restart mints a new one.
TokenOf(e) == <<"t", Digits[e + 1]>>

\* No token: None, or a name without a cache file.
NoToken == <<>>

\* How the claim request can fail other than by 410: no connection (the server
\* never sees it), a timeout reading the answer (the server has handled it),
\* a status other than 200 and 410 answered on the way to the server.
OtherFailures == {"ConnectError", "ReadTimeout", "HTTPStatusError"}

NetOutcomes == {"ok"} \cup OtherFailures

\* The request reaches claim_auth_token.
Delivered(net) == net \in {"ok", "ReadTimeout"}

\* Mutant of ClaimAuthToken: the handler answers without setting the flag.
ClaimAuthTokenFlagNotSet ==
    /\ grants' = IF auth_token_claimed THEN grants ELSE grants + 1
    /\ denials' = IF auth_token_claimed THEN denials + 1 ELSE denials
    /\ auth_token_claimed' = auth_token_claimed

\* claim_auth_token: 410 once the flag is set, else set it and answer the token.
\* The handler has no suspension point: it runs as one step.
ClaimAuthToken ==
    /\ grants' = IF auth_token_claimed THEN grants ELSE grants + 1
    /\ denials' = IF auth_token_claimed THEN denials + 1 ELSE denials
    /\ auth_token_claimed' = TRUE

\* The status claim_auth_token answers with in the current state.
ClaimStatus == IF auth_token_claimed THEN "410" ELSE "200"

\* What _claim_auth_token comes back with: the answer's status, or the failure.
ClaimResult(net) == IF net = "ok" THEN ClaimStatus ELSE net

\* Mutant of AfterClaim: except Exception instead of except RuntimeError.
AfterClaimCatchAll(res) ==
    IF res = "200" THEN "claimed" ELSE "fallback"

\* Where get_auth_token goes after _claim_auth_token: a token is saved and
\* returned, the RuntimeError of a 410 is caught and falls back to the cache,
\* every other exception leaves get_auth_token.
AfterClaim(res) ==
    IF res = "200" THEN "claimed"
    ELSE IF res = "410" THEN "fallback"
    ELSE "raised"

NextCall(k) ==
    /\ cpc[k] = "idle"
    /\ \A j \in Calls : j < k => cpc[j] # "idle"

\* get_auth_token(base_url, n) up to the answer of its claim request:
\* _claim_auth_token posts to /auth-token, the server (when reached) runs
\* claim_auth_token, and the answer or the failure comes back.
GetAuthToken(k, n, net) ==
    /\ NextCall(k)
    /\ cname' = [cname EXCEPT ![k] = n]
    /\ IF Delivered(net)
       THEN ClaimAuthToken
       ELSE UNCHANGED <<auth_token_claimed, grants, denials>>
    /\ cresp' = [cresp EXCEPT ![k] = ClaimResult(net)]
    /\ ctoken' = [ctoken EXCEPT ![k] =
                     IF ClaimResult(net) = "200" THEN auth_token ELSE NoToken]
    /\ cpc' = [cpc EXCEPT ![k] = AfterClaim(ClaimResult(net))]
    /\ cerr' = [cerr EXCEPT ![k] =
                   IF AfterClaim(ClaimResult(net)) = "raised"
                   THEN ClaimResult(net) ELSE "none"]
    /\ cepoch' = [cepoch EXCEPT ![k] =
                     IF ClaimResult(net) \in {"200", "410"} THEN epoch ELSE @]
    /\ UNCHANGED <<otherVars, auth_token, srvVars, epoch, cache, cret, cread>>

\* Mutant of SaveAndReturn: the token is returned without being saved.
ReturnWithoutSave(k) ==
    /\ cpc[k] = "claimed"
    /\ cret' = [cret EXCEPT ![k] = ctoken[k]]
    /\ cpc' = [cpc EXCEPT ![k] = "returned"]
    /\ UNCHANGED <<otherVars, auth_token, srvVars, claimVars, cache, cname, cresp, ctoken,
                   cerr, cread, cepoch>>

\* _save_cached_token(n, token); return token
SaveAndReturn(k) ==
    /\ cpc[k] = "claimed"
    /\ cache' = [cache EXCEPT ![cname[k]] = ctoken[k]]
    /\ cret' = [cret EXCEPT ![k] = ctoken[k]]
    /\ cpc' = [cpc EXCEPT ![k] = "returned"]
    /\ UNCHANGED <<otherVars, auth_token, srvVars, claimVars, cname, cresp, ctoken, cerr,
                   cread, cepoch>>

\* Mutant of LoadAndReturn: whatever _load_cached_token gives is returned,
\* None included.
LoadAndReturnNoCheck(k) ==
    /\ cpc[k] = "fallback"
    /\ cread' = [cread EXCEPT ![k] = TRUE]
    /\ cret' = [cret EXCEPT ![k] = cache[cname[k]]]
    /\ cpc' = [cpc EXCEPT ![k] = "returned"]
    /\ UNCHANGED <<otherVars, auth_token, srvVars, claimVars, cache, cname, cresp, ctoken,
                   cerr, cepoch>>

\* cached = _load_cached_token(n): returned when there is one, otherwise the
\* RuntimeError "already claimed and not in local cache".
LoadAndReturn(k) ==
    /\ cpc[k] = "fallback"
    /\ cread' = [cread EXCEPT ![k] = TRUE]
    /\ IF cache[cname[k]] # NoToken
       THEN /\ cret' = [cret EXCEPT ![k] = cache[cname[k]]]
            /\ cpc' = [cpc EXCEPT ![k] = "returned"]
            /\ UNCHANGED cerr
       ELSE /\ cerr' = [cerr EXCEPT ![k] = "CredentialsUnavailable"]
            /\ cpc' = [cpc EXCEPT ![k] = "raised"]
            /\ UNCHANGED cret
    /\ UNCHANGED <<otherVars, auth_token, srvVars, claimVars, cache, cname, cresp, ctoken,
                   cepoch>>

\* The server process is restarted, with the same token or a newly minted one:
\* the module is loaded again and auth_token_claimed starts False.
ServerRestart(fresh) ==
    /\ epoch < MaxRestarts
    /\ epoch' = epoch + 1
    /\ auth_token' = IF fresh THEN TokenOf(epoch + 1) ELSE auth_token
    /\ auth_token_claimed' = FALSE
    /\ grants' = 0
    /\ denials' = 0
    /\ UNCHANGED <<otherVars, srvVars, callVars>>

\* ApiClient._headers: the Authorization header the client sends with a token.
ClientHeader(token) == HeaderOf(Str_Bearer \o token)

AuthInit ==
    /\ auth_token_claimed = FALSE
    /\ epoch = 0
    /\ grants = 0
    /\ denials = 0
    /\ cache = [n \in Names |-> NoToken]
    /\ cpc = [k \in Calls |-> "idle"]
    /\ cname = [k \in Calls |-> "-"]
    /\ cresp = [k \in Calls |-> "none"]
    /\ ctoken = [k \in Calls |-> NoToken]
    /\ cret = [k \in Calls |-> NoToken]
    /\ cerr = [k \in Calls |-> "none"]
    /\ cread = [k \in Calls |-> FALSE]
    /\ cepoch = [k \in Calls |-> 0]

(***************************************************************************)
(* CodespaceManager: find, create, start, wait_until_available and         *)
(* find_or_create, run once for (Repo, Branch).                            *)
(***************************************************************************)
\* Codespaces the remote API lists before the run.
MaxSessions == 2

\* The longest a status request takes, in clock ticks.
MaxLatency == 2

\* coderev.config.CODESPACE_BOOT_TIMEOUT, in clock ticks
CODESPACE_BOOT_TIMEOUT == 3

\* coderev.config.CODESPACE_POLL_INTERVAL, in clock ticks
CODESPACE_POLL_INTERVAL == 2

Repo == "org/repo"

Branch == "main"

\* The (repository, branch) pairs of listed codespaces: the pair asked for,
\* and pairs that differ from it in the branch or in the repository.
SessionKeys == {<<Repo, Branch>>, <<Repo, "dev">>, <<"org/other", Branch>>}

\* The states a listed codespace can report; Missing is an answer without a
\* "state" key.
SessionStates == {"Available", "Shutdown", "ShuttingDown", "Starting", "Missing"}

SessionNames == <<"cs1", "cs2", "cs3", "cs4", "cs5">>

\* The name the remote API gives a codespace it creates.
CreatedName == "new"

NoSession == [name |-> "-", repo |-> "-", branch |-> "-", state |-> "Missing"]

\* What a listed codespace can be: one of the pair asked for, in any state, or
\* one of another pair, running or stopped (find never reads its state).
ListedEntries ==
    {<<Repo, Branch, st>> : st \in SessionStates}
    \cup {<<k[1], k[2], st>> : k \in SessionKeys \ {<<Repo, Branch>>},
                               st \in {"Available", "Shutdown"}}

\* Listings of n codespaces with distinct names.
Listings(n) ==
    { [i \in 1..n |-> [name |-> SessionNames[i], repo |-> f[i][1],
                       branch |-> f[i][2], state |-> f[i][3]]] :
      f \in [1..n -> ListedEntries] }

\* cs.get("state", "Unknown")
StateOf(cs) == IF cs.state = "Missing" THEN "Unknown" ELSE cs.state

\* find: the first listed codespace whose repository and branch both match.
RECURSIVE FindFrom(_, _, _, _)
FindFrom(list, i, repo, branch) ==
    IF i > Len(list) THEN NoSession
    ELSE IF list[i].repo = repo /\ list[i].branch = branch THEN list[i]
    ELSE FindFrom(list, i + 1, repo, branch)

Find(list, repo, branch) == FindFrom(list, 1, repo, branch)

\* The state the remote API reports for the codespace called name.
RemoteState(name) ==
    LET ix == {i \in 1..Len(sessions) : sessions[i].name = name}
    IN  IF ix = {} THEN "Unknown" ELSE StateOf(sessions[CHOOSE i \in ix : TRUE])

\* Mutant of AfterFind: the Available fast path is missing, a found codespace
\* is always waited for.
AfterFindNoFastPath(cs) ==
    IF cs = NoSession THEN "creating"
    ELSE IF StateOf(cs) \in {"Shutdown", "ShuttingDown"} THEN "starting"
    ELSE "loop"

\* Mutant of AfterFind: only Shutdown counts as stopped, a ShuttingDown
\* codespace is waited for without being started.
AfterFindShutdownOnly(cs) ==
    IF cs = NoSession THEN "creating"
    ELSE IF StateOf(cs) = "Available" THEN "returned"
    ELSE IF StateOf(cs) = "Shutdown" THEN "starting"
    ELSE "loop"

\* What find_or_create does with what find returned: return at once, start
\* and wait, wait, or create and wait.
AfterFind(cs) ==
    IF cs = NoSession THEN "creating"
    ELSE IF StateOf(cs) = "Available" THEN "returned"
    ELSE IF StateOf(cs) \in {"Shutdown", "ShuttingDown"} THEN "starting"
    ELSE "loop"

\* cs = self.find(repo, branch) and the branch taken on it, up to the next
\* request (ok: the two requests of find succeed).
FindOrCreate(ok) ==
    /\ fpc = "start"
    /\ IF ~ok
       THEN /\ fpc' = "raised"
            /\ ferr' = "HTTPStatusError"
            /\ UNCHANGED <<ffound, fname, fret, deadline>>
       ELSE LET cs == Find(sessions, Repo, Branch)
            IN  /\ ffound' = cs
                /\ fpc' = AfterFind(cs)
                /\ fname' = IF cs = NoSession THEN fname ELSE cs.name
                /\ fret' = IF AfterFind(cs) = "returned" THEN cs.name ELSE fret
                /\ deadline' = IF AfterFind(cs) = "loop"
                               THEN now + CODESPACE_BOOT_TIMEOUT ELSE deadline
                /\ UNCHANGED ferr
    /\ UNCHANGED <<nonCsVars, poll_lat, last_state, sessions, now,
                   n_create, n_start, n_poll>>

\* self.start(name), then wait_until_available sets its deadline.
StartStopped(ok, st) ==
    /\ fpc = "starting"
    /\ n_start' = n_start + 1
    /\ IF ~ok
       THEN /\ fpc' = "raised"
            /\ ferr' = "HTTPStatusError"
            /\ st = "Starting"
            /\ UNCHANGED <<sessions, deadline>>
       ELSE /\ sessions' = [i \in 1..Len(sessions) |->
                               IF sessions[i].name = fname
                               THEN [sessions[i] EXCEPT !.state = st]
                               ELSE sessions[i]]
            /\ fpc' = "loop"
            /\ deadline' = now + CODESPACE_BOOT_TIMEOUT
            /\ UNCHANGED ferr
    /\ UNCHANGED <<nonCsVars, poll_lat, last_state, now, fname, ffound,
                   fret, n_create, n_poll>>

\* Mutant of CreateNew: the created codespace's name is returned without
\* waiting for it to become Available.
CreateNewNoWait(ok, st) ==
    /\ fpc = "creating"
    /\ n_create' = n_create + 1
    /\ IF ~ok
       THEN /\ fpc' = "raised"
            /\ ferr' = "HTTPStatusError"
            /\ st = "Starting"
            /\ UNCHANGED <<sessions, fname, fret>>
       ELSE /\ sessions' = Append(sessions, [name |-> CreatedName, repo |-> Repo,
                                             branch |-> Branch, state |-> st])
            /\ fname' = CreatedName
            /\ fret' = CreatedName
            /\ fpc' = "returned"
            /\ UNCHANGED ferr
    /\ UNCHANGED <<nonCsVars, poll_lat, last_state, now, ffound, deadline,
                   n_start, n_poll>>

\* cs = self.create(repo, branch), then wait_until_available sets its deadline.
CreateNew(ok, st) ==
    /\ fpc = "creating"
    /\ n_create' = n_create + 1
    /\ IF ~ok
       THEN /\ fpc' = "raised"
            /\ ferr' = "HTTPStatusError"
            /\ st = "Starting"
            /\ UNCHANGED <<sessions, fname, deadline>>
       ELSE /\ sessions' = Append(sessions, [name |-> CreatedName, repo |-> Repo,
                                             branch |-> Branch, state |-> st])
            /\ fname' = CreatedName
            /\ fpc' = "loop"
            /\ deadline' = now + CODESPACE_BOOT_TIMEOUT
            /\ UNCHANGED ferr
    /\ UNCHANGED <<nonCsVars, poll_lat, last_state, now, ffound, fret,
                   n_start, n_poll>>

\* Mutant of Poll: the loop does not look at the deadline.
PollNoDeadline(ok, lat) ==
    /\ fpc = "loop"
    /\ n_poll' = n_poll + 1
    /\ now' = now + lat
    /\ poll_lat' = lat
    /\ last_state' = IF ok THEN RemoteState(fname) ELSE last_state
    /\ IF ~ok
       THEN /\ fpc' = "raised"
            /\ ferr' = "HTTPStatusError"
            /\ UNCHANGED fret
       ELSE IF RemoteState(fname) = "Available"
            THEN /\ fpc' = "returned"
                 /\ fret' = fname
                 /\ UNCHANGED ferr
            ELSE /\ fpc' = "sleep"
                 /\ UNCHANGED <<fret, ferr>>
    /\ UNCHANGED <<nonCsVars, sessions, fname, ffound, deadline, n_create, n_start>>

\* wait_until_available, one pass of its loop: the status request (taking lat
\* ticks) and what follows it up to the sleep.
Poll(ok, lat) ==
    /\ fpc = "loop"
    /\ now < deadline
    /\ n_poll' = n_poll + 1
    /\ now' = now + lat
    /\ poll_lat' = lat
    /\ last_state' = IF ok THEN RemoteState(fname) ELSE last_state
    /\ IF ~ok
       THEN /\ fpc' = "raised"
            /\ ferr' = "HTTPStatusError"
            /\ UNCHANGED fret
       ELSE IF RemoteState(fname) = "Available"
            THEN /\ fpc' = "returned"
                 /\ fret' = fname
                 /\ UNCHANGED ferr
            ELSE /\ fpc' = "sleep"
                 /\ UNCHANGED <<fret, ferr>>
    /\ UNCHANGED <<nonCsVars, sessions, fname,
                   ffound, deadline, n_create, n_start>>

\* time.sleep(CODESPACE_POLL_INTERVAL)
Sleep ==
    /\ fpc = "sleep"
    /\ now' = now + CODESPACE_POLL_INTERVAL
    /\ fpc' = "loop"
    /\ UNCHANGED <<nonCsVars, poll_lat, last_state, sessions, fname,
                   ffound, fret, ferr, deadline, n_create, n_start, n_poll>>

\* The loop condition fails: raise TimeoutError.
BootTimeout ==
    /\ fpc = "loop"
    /\ now >= deadline
    /\ fpc' = "raised"
    /\ ferr' = "TimeoutError"
    /\ UNCHANGED <<nonCsVars, poll_lat, last_state, sessions, now, fname,
                   ffound, fret, deadline, n_create, n_start, n_poll>>

\* The remote system moves the awaited codespace to another state.
RemoteChange(st) ==
    /\ fpc \in {"loop", "sleep"}
    /\ st # RemoteState(fname)
    /\ \E i \in 1..Len(sessions) : sessions[i].name = fname
    /\ sessions' = [i \in 1..Len(sessions) |->
                       IF sessions[i].name = fname
                       THEN [sessions[i] EXCEPT !.state = st]
                       ELSE sessions[i]]
    /\ UNCHANGED <<nonCsVars, poll_lat, last_state, now, fpc, fname,
                   ffound, fret, ferr, deadline, n_create, n_start, n_poll>>

CodespaceInit ==
    /\ sessions = <<>>
    /\ now = 0
    /\ fpc = "init"
    /\ fname = "-"
    /\ ffound = NoSession
    /\ fret = "-"
    /\ ferr = "none"
    /\ deadline = 0
    /\ n_create = 0
    /\ n_start = 0
    /\ n_poll = 0
    /\ poll_lat = 0
    /\ last_state = "-"

\* The remote API's listing when find_or_create is called.
RemoteListing ==
    /\ fpc = "init"
    /\ \E n \in 0..MaxSessions : \E list \in Listings(n) : sessions' = list
    /\ fpc' = "start"
    /\ UNCHANGED <<nonCsVars, poll_lat, last_state, now, fname, ffound,
                   fret, ferr, deadline, n_create, n_start, n_poll>>

(***************************************************************************)
(* generate() of POST /ask/stream, line by line (api_server.py 230-248).   *)
(* A line is the sequence of its characters without the newline.           *)
(***************************************************************************)
MaxLines == 2

MaxClock == 3

\* wait_for(proc.wait(), timeout=120), in minutes.
STREAM_TIMEOUT == 2

\* A byte that is not valid UTF-8.
BadByte == "\\xff"

Whitespace == {" ", "\t"}

\* Lines an agent can write: plain ones, one with inner whitespace, indented
\* and padded ones, an empty one, a whitespace-only one, an undecodable one.
OutputLines ==
    { <<"a">>, <<"b">>, <<"a", " ", "b">>, <<" ", "a">>, <<"b", "\t">>,
      <<>>, <<" ">>, <<BadByte>> }

DonePayload == <<"[DONE]">>

\* json.dumps({'error': 'timeout'})
TimeoutPayload == <<"{\"error\": \"timeout\"}">>

\* line.decode() raises UnicodeDecodeError unless the line is valid UTF-8.
Decodable(line) == \A i \in 1..Len(line) : line[i] # BadByte

RECURSIVE LStrip(_)
LStrip(s) ==
    IF s # <<>> /\ Head(s) \in Whitespace THEN LStrip(Tail(s)) ELSE s

RECURSIVE RStrip(_)
RStrip(s) ==
    IF s # <<>> /\ s[Len(s)] \in Whitespace
    THEN RStrip(SubSeq(s, 1, Len(s) - 1)) ELSE s

\* str.strip()
Strip(s) == RStrip(LStrip(s))

\* proc = await asyncio.create_subprocess_exec(...); a spawn that fails raises
\* out of generate().
RelaySpawn(ok) ==
    /\ gpc = "start"
    /\ IF ok
       THEN /\ gpc' = "reading"
            /\ gproc' = "alive"
            /\ gopen' = TRUE
       ELSE /\ gpc' = "aborted"
            /\ UNCHANGED <<gproc, gopen>>
    /\ UNCHANGED <<nonRelayVars, gpipe, gwritten, gframes, gclock, gwait>>

\* The subprocess writes one line to its stdout.
AgentWrite(line) ==
    /\ gproc = "alive"
    /\ gopen
    /\ Len(gwritten) < MaxLines
    /\ gpipe' = Append(gpipe, line)
    /\ gwritten' = Append(gwritten, line)
    /\ UNCHANGED <<nonRelayVars, gpc, gproc, gopen, gframes, gclock, gwait>>

\* The subprocess closes its stdout and keeps running.
AgentCloseStdout ==
    /\ gproc = "alive"
    /\ gopen
    /\ gopen' = FALSE
    /\ UNCHANGED <<nonRelayVars, gpc, gproc, gpipe, gwritten, gframes, gclock, gwait>>

\* The subprocess exits.
AgentExit ==
    /\ gproc = "alive"
    /\ gproc' = "exited"
    /\ gopen' = FALSE
    /\ UNCHANGED <<nonRelayVars, gpc, gpipe, gwritten, gframes, gclock, gwait>>

\* Mutant of RelayLine: the frame is put before the frames already yielded.
RelayLineReordered ==
    /\ gpc = "reading"
    /\ gpipe # <<>>
    /\ gpipe' = Tail(gpipe)
    /\ IF ~Decodable(Head(gpipe))
       THEN /\ gpc' = "aborted"
            /\ UNCHANGED gframes
       ELSE LET decoded == Strip(Head(gpipe))
            IN  /\ gframes' = IF decoded # <<>> THEN <<decoded>> \o gframes
                                               ELSE gframes
                /\ UNCHANGED gpc
    /\ UNCHANGED <<nonRelayVars, gproc, gopen, gwritten, gclock, gwait>>

\* One pass of "async for line in proc.stdout": decoded = line.decode().strip();
\* if decoded: yield the frame. A line that does not decode raises out of
\* generate().
RelayLine ==
    /\ gpc = "reading"
    /\ gpipe # <<>>
    /\ gpipe' = Tail(gpipe)
    /\ IF ~Decodable(Head(gpipe))
       THEN /\ gpc' = "aborted"
            /\ UNCHANGED gframes
       ELSE LET decoded == Strip(Head(gpipe))
            IN  /\ gframes' = IF decoded # <<>> THEN Append(gframes, decoded)
                                               ELSE gframes
                /\ UNCHANGED gpc
    /\ UNCHANGED <<nonRelayVars, gproc, gopen, gwritten, gclock, gwait>>

\* The loop ends at end of file; await asyncio.wait_for(proc.wait(), 120)
\* starts its timer.
RelayEOF ==
    /\ gpc = "reading"
    /\ gpipe = <<>>
    /\ ~gopen
    /\ gpc' = "waiting"
    /\ gwait' = gclock
    /\ UNCHANGED <<nonRelayVars, gproc, gopen, gpipe, gwritten, gframes, gclock>>

\* proc.wait() returns: yield "data: [DONE]".
RelayWaitReturn ==
    /\ gpc = "waiting"
    /\ gproc # "alive"
    /\ gframes' = Append(gframes, DonePayload)
    /\ gpc' = "done"
    /\ UNCHANGED <<nonRelayVars, gproc, gopen, gpipe, gwritten, gclock, gwait>>

\* The timer of wait_for fires: proc.kill(), yield the timeout event, yield
\* "data: [DONE]".
RelayWaitTimeout ==
    /\ gpc = "waiting"
    /\ gproc = "alive"
    /\ gclock - gwait >= STREAM_TIMEOUT
    /\ gproc' = "killed"
    /\ gopen' = FALSE
    /\ gframes' = gframes \o <<TimeoutPayload, DonePayload>>
    /\ gpc' = "done"
    /\ UNCHANGED <<nonRelayVars, gpipe, gwritten, gclock, gwait>>

\* A minute passes while the subprocess runs; a timer that is due fires
\* before the next minute.
ClockTick ==
    /\ gproc = "alive"
    /\ IF gpc = "waiting" THEN gclock - gwait < STREAM_TIMEOUT
                          ELSE gclock < MaxClock
    /\ gclock' = gclock + 1
    /\ UNCHANGED <<nonRelayVars, gpc, gproc, gopen, gpipe, gwritten, gframes, gwait>>

\* The request is authorized and generate() holds claude_lock.
RelayInit ==
    /\ gpc = "start"
    /\ gproc = "none"
    /\ gopen = FALSE
    /\ gpipe = <<>>
    /\ gwritten = <<>>
    /\ gframes = <<>>
    /\ gclock = 0
    /\ gwait = 0

(***************************************************************************)
(* Tunnel (tunnel.py), and its use as a context manager in cli.ask.        *)
(***************************************************************************)
MaxCalls == 3

\* self._proc is None
NoHandle == 0

\* self._proc and self._proc.poll() is None
HandleAlive == t_handle # NoHandle /\ t_procs[t_handle] = "alive"

\* What the spawned process does during open's time.sleep(3), or Popen
\* raising because gh cannot be executed.
OpenOutcomes == {"runs", "dies", "nospawn"}

\* Mutant of OpenEffect: open() does not look at the process it manages.
OpenEffectNoCheck(outcome) ==
    IF outcome = "nospawn"
    THEN /\ t_err' = "OSError"
         /\ UNCHANGED <<t_handle, t_procs>>
    ELSE /\ t_procs' = Append(t_procs, IF outcome = "runs" THEN "alive" ELSE "exited")
         /\ t_handle' = Len(t_procs) + 1
         /\ t_err' = IF outcome = "runs" THEN "none" ELSE "RuntimeError"

\* The tunnel state after open(): nothing when the process is alive; else
\* Popen, sleep, and RuntimeError when the new process has exited.
OpenEffect(outcome) ==
    IF HandleAlive
    THEN /\ t_err' = "none"
         /\ UNCHANGED <<t_handle, t_procs>>
    ELSE IF outcome = "nospawn"
    THEN /\ t_err' = "OSError"
         /\ UNCHANGED <<t_handle, t_procs>>
    ELSE /\ t_procs' = Append(t_procs, IF outcome = "runs" THEN "alive" ELSE "exited")
         /\ t_handle' = Len(t_procs) + 1
         /\ t_err' = IF outcome = "runs" THEN "none" ELSE "RuntimeError"

\* Mutant of CloseEffect: a process that does not exit on terminate() is not
\* killed.
CloseEffectNoKill(graceful) ==
    /\ t_err' = "none"
    /\ IF HandleAlive
       THEN /\ t_procs' = [t_procs EXCEPT ![t_handle] =
                              IF graceful THEN "exited" ELSE "alive"]
            /\ t_handle' = NoHandle
       ELSE UNCHANGED <<t_handle, t_procs>>

\* The tunnel state after close(): terminate, wait up to 5 s, kill if the
\* process has not exited, and clear the handle; nothing when the handle is
\* None or the process has exited.
CloseEffect(graceful) ==
    /\ t_err' = "none"
    /\ IF HandleAlive
       THEN /\ t_procs' = [t_procs EXCEPT ![t_handle] =
                              IF graceful THEN "exited" ELSE "killed"]
            /\ t_handle' = NoHandle
       ELSE UNCHANGED <<t_handle, t_procs>>

\* tunnel.open(), called directly.
Open(outcome) ==
    /\ t_scope = "out"
    /\ Len(t_hist) < MaxCalls
    /\ OpenEffect(outcome)
    /\ t_hist' = Append(t_hist, "open")
    /\ UNCHANGED <<nonTunnelVars, t_scope, t_exit>>

\* tunnel.close(), called directly.
Close(graceful) ==
    /\ t_scope = "out"
    /\ Len(t_hist) < MaxCalls
    /\ CloseEffect(graceful)
    /\ t_hist' = Append(t_hist, "close")
    /\ UNCHANGED <<nonTunnelVars, t_scope, t_exit>>

\* The managed gh process exits on its own.
TunnelProcExit ==
    /\ \E p \in 1..Len(t_procs) :
          /\ t_procs[p] = "alive"
          /\ t_procs' = [t_procs EXCEPT ![p] = "exited"]
    /\ UNCHANGED <<nonTunnelVars, t_handle, t_hist, t_err, t_scope, t_exit>>

\* with Tunnel(...) as tunnel: __enter__ calls open(); when open() raises the
\* body is not entered and __exit__ is not called.
Enter(outcome) ==
    /\ t_scope = "out"
    /\ OpenEffect(outcome)
    /\ t_hist' = Append(t_hist, "open")
    /\ t_scope' = IF t_err' = "none" THEN "probe" ELSE "failed"
    /\ UNCHANGED <<nonTunnelVars, t_exit>>

\* The body of the with statement in cli.ask: wait_until_ready, the token
\* claim, the request; each returns or raises.
BodyOrder == <<"probe", "claim", "request">>

BodyStep(ok) ==
    /\ \E i \in 1..Len(BodyOrder) :
          /\ t_scope = BodyOrder[i]
          /\ IF ok
             THEN /\ t_scope' = IF i < Len(BodyOrder) THEN BodyOrder[i + 1]
                                                     ELSE "leaving"
                  /\ t_exit' = IF i < Len(BodyOrder) THEN t_exit ELSE "normal"
             ELSE /\ t_scope' = "leaving"
                  /\ t_exit' = BodyOrder[i]
    /\ UNCHANGED <<nonTunnelVars, t_handle, t_procs, t_hist, t_err>>

\* Mutant of Leave: close() is called only when the body ran to its end.
LeaveNormalOnly(graceful) ==
    /\ t_scope = "leaving"
    /\ IF t_exit = "normal"
       THEN /\ CloseEffect(graceful)
            /\ t_hist' = Append(t_hist, "close")
       ELSE UNCHANGED <<t_handle, t_procs, t_hist, t_err>>
    /\ t_scope' = "left"
    /\ UNCHANGED <<nonTunnelVars, t_exit>>

\* __exit__ calls close(), on a normal end of the body and on an exception.
Leave(graceful) ==
    /\ t_scope = "leaving"
    /\ CloseEffect(graceful)
    /\ t_hist' = Append(t_hist, "close")
    /\ t_scope' = "left"
    /\ UNCHANGED <<nonTunnelVars, t_exit>>

TunnelInit ==
    /\ t_handle = NoHandle
    /\ t_procs = <<>>
    /\ t_hist = <<>>
    /\ t_err = "none"
    /\ t_scope = "out"
    /\ t_exit = "none"

(***************************************************************************)
(* _build_prompt and _build_claude_cmd (api_server.py 130-153).            *)
(***************************************************************************)
\* A string is the sequence of its pieces; an optional field is given or not.
None == [given |-> FALSE, val |-> <<>>]

Some(v) == [given |-> TRUE, val |-> v]

\* Python's truth value of an optional string: given and not empty.
Truthy(opt) == opt.given /\ opt.val # <<>>

Modes == {"ask", "stream"}

ALLOWED_TOOLS ==
    << <<"Read">>, <<"Glob">>, <<"Grep">>, <<"Bash(git *)">>, <<"Bash(gh *)">>,
       <<"Bash(cargo *)">>, <<"Bash(ls *)">>, <<"Bash(find *)">>, <<"Bash(wc *)">>,
       <<"Bash(head *)">>, <<"Bash(tail *)">>, <<"Bash(cat *)">>,
       <<"Bash(grep *)">>, <<"Bash(rg *)">> >>

\* Questions: a word, the empty string, two paragraphs.
Questions == { <<"q">>, <<>>, <<"q", "\n\n", "r">> }

DiffRanges == { None, Some(<<>>), Some(<<"m", "..", "h">>) }

FileLists == { <<>>, << <<"x">> >>, << <<"x">>, <<"y">> >>, << <<"y">>, <<"x">> >> }

ModelNames == { None, Some(<<>>), Some(<<"opus">>) }

SessionIds == { None, Some(<<"s">>) }

MaxTurns == {1, 30}

AskRequests ==
    [question : Questions, files : FileLists, diff_range : DiffRanges,
     model : ModelNames, max_turns : MaxTurns, session_id : SessionIds]

NoRequest ==
    [question |-> <<>>, files |-> <<>>, diff_range |-> None, model |-> None,
     max_turns |-> 0, session_id |-> None]

\* sep.join(parts)
RECURSIVE Join(_, _)
Join(parts, sep) ==
    IF parts = <<>> THEN <<>>
    ELSE IF Len(parts) = 1 THEN parts[1]
    ELSE parts[1] \o sep \o Join(Tail(parts), sep)

DecimalDigits == <<"0", "1", "2", "3", "4", "5", "6", "7", "8", "9">>

\* str(n) for n >= 0
RECURSIVE Str(_)
Str(n) ==
    IF n < 10 THEN <<DecimalDigits[n + 1]>>
    ELSE Str(n \div 10) \o <<DecimalDigits[(n % 10) + 1]>>

\* The grave accent that quotes the range in the diff directive.
Backtick == "GRAVE"

\* f"Consider the diff for range {quoted req.diff_range}."
DiffDirective(req) ==
    <<"Consider the diff for range ", Backtick>> \o req.diff_range.val
        \o <<Backtick, ".">>

\* f"Focus on these files: {', '.join(req.files)}"
FilesDirective(req) == <<"Focus on these files: ">> \o Join(req.files, <<", ">>)

\* Mutant of BuildPrompt: the file directive comes before the diff directive.
BuildPromptFilesFirst(req) ==
    Join((IF req.files # <<>> THEN <<FilesDirective(req)>> ELSE <<>>)
         \o (IF Truthy(req.diff_range) THEN <<DiffDirective(req)>> ELSE <<>>)
         \o <<req.question>>, <<"\n\n">>)

\* _build_prompt
BuildPrompt(req) ==
    Join((IF Truthy(req.diff_range) THEN <<DiffDirective(req)>> ELSE <<>>)
         \o (IF req.files # <<>> THEN <<FilesDirective(req)>> ELSE <<>>)
         \o <<req.question>>, <<"\n\n">>)

\* _build_claude_cmd
BuildClaudeCmd(req, stream) ==
    << <<"claude">>, <<"-p">>, BuildPrompt(req),
       <<"--allowedTools">>, Join(ALLOWED_TOOLS, <<",">>),
       <<"--max-turns">>, Str(req.max_turns),
       <<"--output-format">>, IF stream THEN <<"stream-json">> ELSE <<"json">> >>
    \o (IF Truthy(req.session_id) THEN << <<"--resume">>, req.session_id.val >>
                                  ELSE <<>>)
    \o (IF Truthy(req.model) THEN << <<"--model">>, req.model.val >> ELSE <<>>)

\* FastAPI hands a validated AskRequest to the handler.
ReceiveRequest ==
    /\ preq = NoRequest
    /\ preq' \in AskRequests
    /\ UNCHANGED <<nonPromptVars, pcmd>>

\* ask builds its command in _run_claude (stream=False), ask_stream builds its
\* own (stream=True).
BuildCommand(m) ==
    /\ preq # NoRequest
    /\ pcmd[m] = <<>>
    /\ pcmd' = [pcmd EXCEPT ![m] = BuildClaudeCmd(preq, m = "stream")]
    /\ UNCHANGED <<nonPromptVars, preq>>

PromptInit ==
    /\ preq = NoRequest
    /\ pcmd = [m \in Modes |-> <<>>]

(***************************************************************************)
(* The request executor.                                                   *)
(***************************************************************************)
\* The most requests that enter the gate in one behaviour of GateSpec.
MaxGate == 3

\* uvicorn keeps serving: once a request has been answered and its subprocess
\* is gone, its number stands for the next request the server receives.
Recycle(r) ==
    /\ pc[r] = "done"
    /\ proc[r] # "alive"
    /\ Len(gate) < MaxGate
    /\ pc' = [pc EXCEPT ![r] = "idle"]
    /\ kind' = [kind EXCEPT ![r] = "none"]
    /\ hdr' = [hdr EXCEPT ![r] = NoHeader]
    /\ status' = [status EXCEPT ![r] = 0]
    /\ proc' = [proc EXCEPT ![r] = "none"]
    /\ stdout_open' = [stdout_open EXCEPT ![r] = FALSE]
    /\ tres' = [tres EXCEPT ![r] = NoResult]
    /\ sse' = [sse EXCEPT ![r] = <<>>]
    /\ acquired' = [acquired EXCEPT ![r] = 0]
    /\ released' = [released EXCEPT ![r] = 0]
    /\ UNCHANGED <<nonSrvVars, auth_token, locked, waiters, gate>>

ServerInit ==
    /\ pc = [r \in Reqs |-> "idle"]
    /\ kind = [r \in Reqs |-> "none"]
    /\ hdr = [r \in Reqs |-> NoHeader]
    /\ status = [r \in Reqs |-> 0]
    /\ locked = FALSE
    /\ waiters = <<>>
    /\ gate = <<>>
    /\ proc = [r \in Reqs |-> "none"]
    /\ stdout_open = [r \in Reqs |-> FALSE]
    /\ tres = [r \in Reqs |-> NoResult]
    /\ sse = [r \in Reqs |-> <<>>]
    /\ acquired = [r \in Reqs |-> 0]
    /\ released = [r \in Reqs |-> 0]

Init ==
    /\ auth_token = Token1
    /\ ServerInit /\ AuthInit /\ CodespaceInit /\ RelayInit /\ TunnelInit /\ PromptInit

\* What the event loop and the timers do: these steps are taken once enabled.
HandlerStep(r) ==
    \/ LockWake(r)
    \/ \E ok \in BOOLEAN : RunClaude(r, ok)
    \/ RunnerTimeout(r)
    \/ AskHandlerTimeout(r)
    \/ AskFinish(r)
    \/ Generate(r)
    \/ \E ok \in BOOLEAN : StreamSpawn(r, ok)
    \/ StreamEOF(r)
    \/ StreamWaitReturn(r)
    \/ StreamWaitTimeout(r)

\* What clients and agent subprocesses do: nothing obliges them to.
EnvStep(r) ==
    \/ \E h \in Headers : Ask(r, h)
    \/ \E h \in Headers : AskStream(r, h)
    \/ \E rc \in ExitCodes, out \in StdoutKinds : AskProcExit(r, rc, out)
    \/ StreamProcCloseStdout(r)
    \/ StreamProcExit(r)
    \/ StreamDecodeError(r)

Next == \E r \in Reqs : HandlerStep(r) \/ EnvStep(r)

Spec == Init /\ [][Next]_vars

\* The header of a client that holds the server's token.
Authorized == HeaderOf(Str_Bearer \o Token1)

\* Authorized clients and their agent subprocesses.
GateEnvStep(r) ==
    \/ Ask(r, Authorized)
    \/ AskStream(r, Authorized)
    \/ AskProcExit(r, 0, "object")
    \/ StreamProcCloseStdout(r)
    \/ StreamProcExit(r)
    \/ StreamDecodeError(r)

\* The server over a run of authorized requests: answered requests make room
\* for new ones.
GateNext == \E r \in Reqs : HandlerStep(r) \/ GateEnvStep(r) \/ Recycle(r)

GateSpec == Init /\ [][GateNext]_vars

\* The event loop runs every ready handler and every timer fires.
LiveSpec == Spec /\ \A r \in Reqs : WF_vars(HandlerStep(r))

AuthNext ==
    \/ \E k \in Calls, n \in Names, net \in NetOutcomes : GetAuthToken(k, n, net)
    \/ \E k \in Calls : SaveAndReturn(k)
    \/ \E k \in Calls : LoadAndReturn(k)
    \/ \E fresh \in BOOLEAN : ServerRestart(fresh)

AuthSpec == Init /\ [][AuthNext]_vars

CodespaceNext ==
    \/ RemoteListing
    \/ \E ok \in BOOLEAN : FindOrCreate(ok)
    \/ \E ok \in BOOLEAN, st \in SessionStates \ {"Missing"} : StartStopped(ok, st)
    \/ \E ok \in BOOLEAN, st \in SessionStates \ {"Missing"} : CreateNew(ok, st)
    \/ \E ok \in BOOLEAN, lat \in 0..MaxLatency : Poll(ok, lat)
    \/ Sleep
    \/ BootTimeout
    \/ \E st \in SessionStates : RemoteChange(st)

CodespaceSpec == Init /\ [][CodespaceNext]_vars

\* What generate() and the event loop's timer do: taken once enabled.
RelayStep ==
    \/ \E ok \in BOOLEAN : RelaySpawn(ok)
    \/ RelayLine
    \/ RelayEOF
    \/ RelayWaitReturn
    \/ RelayWaitTimeout

\* What the agent subprocess does, and the passing of time.
AgentStep ==
    \/ \E line \in OutputLines : AgentWrite(line)
    \/ AgentCloseStdout
    \/ AgentExit
    \/ ClockTick

RelayNext == RelayStep \/ AgentStep

RelaySpec == Init /\ [][RelayNext]_vars /\ WF_vars(RelayStep)

TunnelNext ==
    \/ \E outcome \in OpenOutcomes : Open(outcome)
    \/ \E graceful \in BOOLEAN : Close(graceful)
    \/ TunnelProcExit
    \/ \E outcome \in OpenOutcomes : Enter(outcome)
    \/ \E ok \in BOOLEAN : BodyStep(ok)
    \/ \E graceful \in BOOLEAN : Leave(graceful)

TunnelSpec == Init /\ [][TunnelNext]_vars

PromptNext ==
    \/ ReceiveRequest
    \/ \E m \in Modes : BuildCommand(m)

PromptSpec == Init /\ [][PromptNext]_vars

\* wait_until_available called on its own, for the one codespace of the
\* account, whatever its state, at clock reading 0 or 1.
WaitInit ==
    /\ auth_token = Token1
    /\ ServerInit /\ AuthInit /\ RelayInit /\ TunnelInit /\ PromptInit
    /\ sessions \in {<<[name |-> SessionNames[1], repo |-> Repo, branch |-> Branch,
                        state |-> st]>> : st \in SessionStates}
    /\ now \in 0..1
    /\ fpc = "wait"
    /\ fname = "-"
    /\ ffound = NoSession
    /\ fret = "-"
    /\ ferr = "none"
    /\ deadline = 0
    /\ n_create = 0
    /\ n_start = 0
    /\ n_poll = 0
    /\ poll_lat = 0
    /\ last_state = "-"

\* deadline = time.monotonic() + CODESPACE_BOOT_TIMEOUT
WaitUntilAvailable ==
    /\ fpc = "wait"
    /\ fname' = sessions[1].name
    /\ deadline' = now + CODESPACE_BOOT_TIMEOUT
    /\ fpc' = "loop"
    /\ UNCHANGED <<nonCsVars, poll_lat, last_state, sessions, now, ffound, fret, ferr,
                   n_create, n_start, n_poll>>

\* The steps of the thread that runs wait_until_available: it is never
\* suspended for good, and each status request comes back or fails.
WaitStep ==
    \/ WaitUntilAvailable
    \/ \E ok \in BOOLEAN, lat \in 0..MaxLatency : Poll(ok, lat)
    \/ Sleep
    \/ BootTimeout

WaitNext == WaitStep \/ \E st \in SessionStates : RemoteChange(st)

WaitSpec == WaitInit /\ [][WaitNext]_vars /\ WF_vars(WaitStep)

(***************************************************************************)
(* Properties of the request executor.                                     *)
(***************************************************************************)
\* The request is inside async with claude_lock.
Holding(r) == pc[r] \in {"locked", "running", "joined", "reading", "waiting"}

\* The request's subprocess ran past a deadline: one of the timers fired.
Overran(r) ==
    \/ status[r] = 504
    \/ proc[r] = "killed"
    \/ \E i \in 1..Len(sse[r]) : sse[r][i] = "timeout"

AliveProcs == {r \in Reqs : proc[r] = "alive"}

HeldCount == Cardinality({r \in Reqs : acquired[r] > released[r]})

\* C1: at every instant at most one agent subprocess spawned by the server is
\* alive, also after a request has ended by timeout or error.
C1_AtMostOneSubprocess == Cardinality(AliveProcs) <= 1

\* C2: every request that acquires the execution slot releases it exactly
\* once, however its subprocess ends: a request never releases more often than
\* it acquired, never acquires twice, has released what it acquired once it
\* has returned, the lock is held exactly when one request is between its
\* acquire and its release, and when every request has returned the slot is
\* free with nobody waiting.
C2_SlotReleasedExactlyOnce ==
    /\ \A r \in Reqs : released[r] <= acquired[r] /\ acquired[r] <= 1
    /\ \A r \in Reqs : pc[r] = "done" => released[r] = acquired[r]
    /\ \A r \in Reqs : Holding(r) <=> acquired[r] > released[r]
    /\ HeldCount <= 1
    /\ locked <=> HeldCount = 1
    /\ (\A r \in Reqs : pc[r] = "done") => ~locked /\ waiters = <<>> /\ HeldCount = 0

\* C2 witness: every request has returned after holding the slot, one ended by
\* the handler's timeout, another by a failed subprocess or unparseable
\* output, and the slot is free.
C2_Witness ==
    /\ \A r \in Reqs : pc[r] = "done" /\ acquired[r] = 1 /\ released[r] = 1
    /\ \E r \in Reqs : status[r] = 504
    /\ \E r \in Reqs : status[r] = 502
    /\ ~locked

\* C3: every request that holds the execution slot eventually releases it,
\* also when its subprocess never exits on its own, and every request waiting
\* at the gate eventually acquires the slot.
C3_HolderEventuallyReleases ==
    \A r \in Reqs :
        /\ Holding(r) ~> ~Holding(r)
        /\ (pc[r] = "queued") ~> (acquired[r] = 1)

\* C4: a buffered request whose subprocess ran past the deadline is answered
\* 504 and nothing else, whichever timer fired first.
C4_DeadlineYields504 ==
    \A r \in Reqs :
        kind[r] = "ask" /\ pc[r] = "done" /\ Overran(r) => status[r] = 504

\* C5: a request that ended because its subprocess exceeded the deadline has
\* no running subprocess once its handler has given up the slot.
C5_TimedOutSubprocessDeadBeforeRelease ==
    \A r \in Reqs :
        Overran(r) /\ released[r] = 1 => proc[r] # "alive"

\* The header names the Bearer scheme, character by character.
IsBearer(h) ==
    /\ h.present
    /\ Len(h.text) >= BearerLen
    /\ \A i \in 1..BearerLen : h.text[i] = Str_Bearer[i]

\* What follows the scheme in the header.
Credential(h) == [i \in 1..(Len(h.text) - BearerLen) |-> h.text[i + BearerLen]]

\* The request touched the gate or a subprocess.
TouchedResource(r) ==
    \/ acquired[r] > 0
    \/ proc[r] # "none"
    \/ \E i \in 1..Len(waiters) : waiters[i] = r
    \/ pc[r] \notin {"idle", "done"}

\* C6: a request whose Authorization header is missing or not Bearer is
\* answered 401, one whose bearer value is not exactly the configured token
\* is answered 403, and neither ever acquires the slot, waits for it or spawns
\* a subprocess; only a request carrying exactly the token gets to the gate.
C6_AuthBeforeGate ==
    \A r \in Reqs :
        pc[r] # "idle" =>
            /\ ~IsBearer(hdr[r]) => status[r] = 401
            /\ IsBearer(hdr[r]) /\ Credential(hdr[r]) # auth_token => status[r] = 403
            /\ status[r] \in {401, 403} => ~TouchedResource(r)
            /\ TouchedResource(r) =>
                   IsBearer(hdr[r]) /\ Credential(hdr[r]) = auth_token

\* C6 witness: a streaming request without a header was refused 401 and a
\* buffered one whose bearer value is the token followed by a space 403, and
\* the slot was never taken.
C6_Witness ==
    /\ \E r \in Reqs : kind[r] = "stream" /\ status[r] = 401 /\ hdr[r] = NoHeader
    /\ \E r \in Reqs : kind[r] = "ask" /\ status[r] = 403
                       /\ hdr[r] = HeaderOf(Str_Bearer \o auth_token \o <<" ">>)
    /\ ~locked /\ waiters = <<>>

(***************************************************************************)
(* Properties of POST /auth-token and get_auth_token.                      *)
(***************************************************************************)
C7_Inv ==
    /\ grants <= 1
    /\ auth_token_claimed <=> grants = 1
    /\ denials > 0 => grants = 1
    /\ Cardinality({k \in Calls : cresp[k] = "200"}) <= epoch + 1

C7_Step == (epoch' = epoch /\ auth_token_claimed) => auth_token_claimed'

\* C7: over any interleaving of POST /auth-token calls against one server
\* instance, the first call that reaches the handler is answered the token
\* and every other one 410, whoever makes it: at most one 200 per instance, a
\* 410 only after the 200, the flag set exactly when the token has been given
\* out (so unset when the instance starts), and the flag never goes back from
\* true to false while the instance lives.
C7_TokenClaimedOnce == []C7_Inv /\ [][C7_Step]_vars

\* C7 witness: one instance has answered three calls made for different
\* codespace names: one 200, two 410.
C7_Witness ==
    /\ epoch = 0
    /\ grants = 1
    /\ denials = 2
    /\ \E j, k \in Calls : cresp[j] = "200" /\ cresp[k] = "410" /\ cname[j] # cname[k]

C8_Inv ==
    \A k \in Calls :
        /\ cpc[k] # "idle" => cresp[k] # "none"
        /\ cread[k] => cresp[k] = "410"
        /\ cresp[k] = "200" =>
               /\ cpc[k] \in {"claimed", "returned"}
               /\ ctoken[k] # NoToken
               /\ cpc[k] = "returned" => cret[k] = ctoken[k]
        /\ cpc[k] = "returned" => cresp[k] \in {"200", "410"} /\ cret[k] # NoToken
        /\ cerr[k] = "CredentialsUnavailable" => cresp[k] = "410" /\ cpc[k] = "raised"

C8_Step ==
    \A k \in Calls :
        /\ cpc[k] = "idle" /\ cresp'[k] = "200" => ctoken'[k] = auth_token
        /\ cpc[k] = "claimed" /\ cpc'[k] # "claimed" =>
               cpc'[k] = "returned" /\ cret'[k] = ctoken[k]
        /\ cpc[k] = "fallback" /\ cpc'[k] # "fallback" =>
               IF cache[cname[k]] # NoToken
               THEN cpc'[k] = "returned" /\ cret'[k] = cache[cname[k]]
               ELSE /\ cpc'[k] = "raised"
                    /\ cerr'[k] = "CredentialsUnavailable"
                    /\ cret'[k] = NoToken

\* C8: get_auth_token attempts the claim before anything else (a call that has
\* started has a claim result, and the cache is read only after a 410); when
\* the claim is answered 200 it returns the token of that answer, which is the
\* server's; when it is answered 410 it returns the token cached for its
\* codespace name if there is one and otherwise raises the
\* credentials-unavailable error.
C8_ClaimFirstThenCache == []C8_Inv /\ [][C8_Step]_vars

\* C8 witness: one call returned the token it claimed, a later call for the
\* same name was answered 410 and returned the cached token, and a call for
\* another name was answered 410 and raised credentials-unavailable.
C8_Witness ==
    \E i, j, k \in Calls :
        /\ cresp[i] = "200" /\ cpc[i] = "returned"
        /\ cresp[j] = "410" /\ cpc[j] = "returned" /\ cname[j] = cname[i]
        /\ cret[j] = cret[i]
        /\ cresp[k] = "410" /\ cerr[k] = "CredentialsUnavailable"
        /\ cname[k] # cname[i]

C9_Inv ==
    \A k \in Calls :
        cresp[k] \in OtherFailures =>
            /\ cpc[k] = "raised"
            /\ cerr[k] = cresp[k]
            /\ ~cread[k]
            /\ cret[k] = NoToken

C9_Step ==
    \A k \in Calls :
        cresp'[k] \in OtherFailures /\ cpc'[k] # cpc[k] => cache' = cache

\* C9: when the claim fails for a reason other than 410 (no connection, a
\* timeout, an unexpected status), get_auth_token raises that very failure: it
\* has not read the cache, returns no token, and no step of the call changes a
\* cache entry.
C9_OtherFailurePropagates == []C9_Inv /\ [][C9_Step]_vars

\* C9 witness: a call whose claim timed out, and one whose claim got an
\* unexpected status, raised although a token is cached for their name.
C9_Witness ==
    \E j, k \in Calls :
        /\ cresp[j] = "ReadTimeout" /\ cerr[j] = "ReadTimeout"
        /\ cresp[k] = "HTTPStatusError" /\ cerr[k] = "HTTPStatusError"
        /\ cache[cname[j]] # NoToken
        /\ cache[cname[k]] # NoToken

(***************************************************************************)
(* Properties of find_or_create.                                           *)
(***************************************************************************)
\* C10: whenever find returns a session whose state is Available,
\* find_or_create has returned that session's name as soon as find is back:
\* no create, no start and no status poll is ever sent, and nothing is raised.
C10_AvailableFastPath ==
    (ffound # NoSession /\ ffound.state = "Available") =>
        /\ fpc = "returned"
        /\ fret = ffound.name
        /\ ferr = "none"
        /\ n_create = 0 /\ n_start = 0 /\ n_poll = 0

\* C10 witness: find skipped a listed codespace of another branch and
\* returned the Available one listed after it, and find_or_create returned.
C10_Witness ==
    /\ Len(sessions) = 2
    /\ sessions[1].repo = Repo /\ sessions[1].branch # Branch
    /\ sessions[1].state = "Shutdown"
    /\ ffound = sessions[2]
    /\ ffound.state = "Available"
    /\ fpc = "returned"
    /\ fret = "cs2"

\* find returned a stopped codespace / a codespace that is neither Available
\* nor stopped.
FoundStopped ==
    ffound # NoSession /\ StateOf(ffound) \in {"Shutdown", "ShuttingDown"}

FoundOther ==
    ffound # NoSession /\ StateOf(ffound) \notin {"Available", "Shutdown", "ShuttingDown"}

C11_Inv ==
    /\ FoundStopped =>
          /\ n_create = 0
          /\ n_start = (IF fpc = "starting" THEN 0 ELSE 1)
          /\ fname = ffound.name
    /\ FoundOther =>
          /\ n_create = 0 /\ n_start = 0
          /\ fname = ffound.name
          /\ fpc \in {"loop", "sleep", "returned", "raised"}

C11_Step ==
    /\ (n_start' # n_start) => (FoundStopped /\ n_poll = 0 /\ n_start = 0)
    /\ (n_poll' # n_poll /\ FoundStopped) => n_start = 1
    /\ (fpc = "start" /\ FoundOther') => (fpc' = "loop" /\ n_poll' = 0)

\* C11: when find returns a codespace in state Shutdown or ShuttingDown,
\* find_or_create sends exactly one start request for it, and sends it before
\* the first status poll; when find returns a codespace in any other state
\* than Available it sends no start and no create request and goes straight
\* to polling that codespace.
C11_StartOnlyStopped == []C11_Inv /\ [][C11_Step]_vars

\* C11 witness: a ShuttingDown codespace was found, started once, polled and
\* returned.
C11_Witness ==
    /\ ffound # NoSession /\ ffound.state = "ShuttingDown"
    /\ n_start = 1 /\ n_poll >= 1 /\ n_create = 0
    /\ fpc = "returned" /\ fret = ffound.name

C12_Inv ==
    /\ n_create + n_start <= 1
    /\ n_create = 1 => (ffound = NoSession /\ n_start = 0)
    /\ (ffound = NoSession /\ fpc \in {"loop", "sleep", "returned"}) =>
          (n_create = 1 /\ fname = CreatedName)
    /\ (ffound = NoSession /\ fpc = "returned") =>
          (fret = CreatedName /\ n_poll >= 1)

C12_Step ==
    /\ (fpc = "start" /\ fpc' \notin {"start", "raised"}
            /\ Find(sessions, Repo, Branch) = NoSession) =>
          (fpc' = "creating" /\ n_create' = 0 /\ n_start' = 0 /\ n_poll' = 0)
    /\ (n_poll' # n_poll /\ ffound = NoSession) => fname = CreatedName
    /\ (fpc # "returned" /\ fpc' = "returned" /\ ffound' = NoSession) =>
          /\ fpc = "loop"
          /\ n_poll' = n_poll + 1
          /\ RemoteState(CreatedName) = "Available"

\* C12: when no listed codespace matches (repository, branch),
\* find_or_create sends create exactly once and never start, then polls the
\* created codespace, and returns the created name only at a poll that
\* observed it Available; a single find_or_create call sends at most one
\* mutating request (create or start).
C12_CreateOnceThenWait == []C12_Inv /\ [][C12_Step]_vars

\* C12 witness: the listing held codespaces of other branches only, one was
\* created, a first poll saw it not yet Available and a later poll returned it.
C12_Witness ==
    /\ Len(sessions) = 2
    /\ sessions[1].branch # Branch
    /\ sessions[2].name = CreatedName
    /\ ffound = NoSession
    /\ n_create = 1 /\ n_start = 0 /\ n_poll >= 2
    /\ fpc = "returned" /\ fret = CreatedName

(***************************************************************************)
(* Properties of wait_until_available.                                     *)
(***************************************************************************)
\* The i-th status request is sent at least i - 1 polling intervals after the
\* deadline was set, and before the deadline.
PollsBounded ==
    n_poll >= 1 => (n_poll - 1) * CODESPACE_POLL_INTERVAL < CODESPACE_BOOT_TIMEOUT

C13_Step ==
    /\ (n_poll' # n_poll /\ ferr' = ferr /\ RemoteState(fname) = "Available") =>
          (fpc' = "returned" /\ fret' = fname)
    /\ (n_poll' # n_poll /\ fpc' = "returned") => RemoteState(fname) = "Available"
    /\ (ferr # "TimeoutError" /\ ferr' = "TimeoutError") =>
          (fpc = "loop" /\ now >= deadline)

C13_Terminates == (fpc \in {"loop", "sleep"}) ~> (fpc \in {"returned", "raised"})

\* C13 as stated: wait_until_available terminates for every sequence of
\* reported states, returns as soon as a poll observes Available, and otherwise
\* raises the timeout error no later than one polling interval after the
\* deadline.
C13_TimeoutWithinOneInterval ==
    /\ [](PollsBounded /\ (ferr = "TimeoutError" =>
                               now <= deadline + CODESPACE_POLL_INTERVAL))
    /\ [][C13_Step]_vars
    /\ C13_Terminates

\* C13, amended: wait_until_available terminates for every sequence of
\* reported states, returns as soon as a poll observes Available, and otherwise
\* raises the timeout error less than one polling interval plus the duration
\* of its last status request after the deadline; it never polls forever.
C13_TimeoutWithinIntervalAndRequest ==
    /\ [](PollsBounded /\ (ferr = "TimeoutError" =>
                               now < deadline + CODESPACE_POLL_INTERVAL + poll_lat))
    /\ [][C13_Step]_vars
    /\ C13_Terminates

\* C13 witness: every poll saw the codespace not Available, the last status
\* request was sent before the deadline and took two ticks, and the timeout
\* error was raised more than one polling interval after the deadline.
C13_Witness ==
    /\ fpc = "raised" /\ ferr = "TimeoutError"
    /\ n_poll = 2 /\ poll_lat = 2
    /\ now > deadline + CODESPACE_POLL_INTERVAL
    /\ RemoteState(fname) # "Available"

(***************************************************************************)
(* Properties of the streaming relay.                                      *)
(***************************************************************************)
\* The lines generate() has read so far.
LinesRead == SubSeq(gwritten, 1, Len(gwritten) - Len(gpipe))

\* The frames yielded before the timeout event and the sentinel.
RECURSIVE LineFrames(_)
LineFrames(fs) ==
    IF fs # <<>> /\ fs[Len(fs)] \in {DonePayload, TimeoutPayload}
    THEN LineFrames(SubSeq(fs, 1, Len(fs) - 1)) ELSE fs

\* The lines of ls that are not blank, each without its surrounding
\* whitespace, in the order of ls.
RECURSIVE StrippedNonBlank(_)
StrippedNonBlank(ls) ==
    IF ls = <<>> THEN <<>>
    ELSE IF Strip(Head(ls)) = <<>> THEN StrippedNonBlank(Tail(ls))
    ELSE <<Strip(Head(ls))>> \o StrippedNonBlank(Tail(ls))

AllDecodable(ls) == \A i \in 1..Len(ls) : Decodable(ls[i])

DoneCount(fs) == Cardinality({i \in 1..Len(fs) : fs[i] = DonePayload})

\* C15: every response body of /ask/stream that was started and has ended,
\* whether the subprocess completed, timed out, could not be spawned or the
\* relay raised, has [DONE] as its last frame and holds it exactly once.
C15_BodyEndsWithDone ==
    gpc \in {"done", "aborted"} =>
        /\ gframes # <<>>
        /\ gframes[Len(gframes)] = DonePayload
        /\ DoneCount(gframes) = 1

\* The timeout events among the frames.
TimeoutCount(fs) == Cardinality({i \in 1..Len(fs) : fs[i] = TimeoutPayload})

\* C16: the subprocess does not run past the hard timeout, counted from its
\* start: a subprocess alive at the deadline is killed, whether it is still
\* writing or holding its output open, and a killed subprocess's body ends
\* with exactly one timeout event followed by the sentinel.
C16_TimeoutBoundsWallTime ==
    /\ gproc = "alive" => gclock <= STREAM_TIMEOUT
    /\ gproc = "killed" =>
          /\ gclock <= STREAM_TIMEOUT
          /\ TimeoutCount(gframes) = 1
          /\ Len(gframes) >= 2
          /\ gframes[Len(gframes) - 1] = TimeoutPayload
          /\ gframes[Len(gframes)] = DonePayload

(***************************************************************************)
(* Properties of Tunnel.                                                   *)
(***************************************************************************)
\* The spawned gh processes that are alive.
TunnelAlive == {p \in 1..Len(t_procs) : t_procs[p] = "alive"}

C17_Inv ==
    /\ Cardinality(TunnelAlive) <= 1
    /\ TunnelAlive # {} => TunnelAlive = {t_handle}

C17_Step ==
    /\ Len(t_procs') > Len(t_procs) =>
          (TunnelAlive = {} /\ t_hist' = Append(t_hist, "open"))
    /\ (t_hist' = Append(t_hist, "open") /\ HandleAlive) =>
          (UNCHANGED <<t_handle, t_procs>> /\ t_err' = "none")

\* C17: over any sequence of open and close calls and process exits, a Tunnel
\* never has more than one live process it spawned, open spawns a process
\* only when none is alive, and open while the managed process is alive
\* changes nothing and raises nothing.
C17_OpenIdempotentWhileAlive == []C17_Inv /\ [][C17_Step]_vars

\* C17 witness: open spawned a process, the process died, a second open
\* spawned another, and a third open found it alive and did nothing.
C17_Witness ==
    /\ t_hist = <<"open", "open", "open">>
    /\ t_procs = <<"exited", "alive">>
    /\ t_handle = 2
    /\ t_err = "none"

\* The last call on the tunnel was close().
AfterClose == t_hist # <<>> /\ t_hist[Len(t_hist)] = "close"

C18_Inv ==
    AfterClose => (t_err = "none" /\ TunnelAlive = {} /\ t_handle = NoHandle)

C18_Step ==
    /\ (AfterClose /\ t_hist' = Append(t_hist, "close")) =>
          UNCHANGED <<t_handle, t_procs, t_err>>
    /\ (AfterClose /\ t_hist' = Append(t_hist, "open") /\ t_err' # "OSError") =>
          (Len(t_procs') = Len(t_procs) + 1 /\ t_handle' = Len(t_procs'))

\* C18: close raises nothing however often it is called, also on a tunnel
\* never opened; after a close no managed process is alive and the handle is
\* None; a close that follows a close changes nothing; an open that follows a
\* close spawns a new process.
C18_CloseIdempotentClearsHandle == []C18_Inv /\ [][C18_Step]_vars

\* C19: when the tunnel is used in a with statement, no process it spawned
\* is alive once the statement is left: after the body ran to its end, after
\* the health probe, the token claim or the request raised, and when
\* __enter__ itself raised.
C19_NoLiveProcessAfterScope ==
    t_scope \in {"left", "failed"} => TunnelAlive = {}

\* C19 witness: the token claim raised inside the with statement while the
\* tunnel process was alive; __exit__ had to kill it.
C19_Witness ==
    /\ t_scope = "left"
    /\ t_exit = "claim"
    /\ t_hist = <<"open", "close">>
    /\ t_procs = <<"killed">>
    /\ t_handle = NoHandle

(***************************************************************************)
(* Properties of the prompt.                                               *)
(***************************************************************************)
\* The prompt with the diff directive if hasDiff and the file directive if
\* hasFiles, each followed by a blank line, then the question.
Composed(req, hasDiff, hasFiles) ==
    (IF hasDiff THEN DiffDirective(req) \o <<"\n\n">> ELSE <<>>)
    \o (IF hasFiles THEN FilesDirective(req) \o <<"\n\n">> ELSE <<>>)
    \o req.question

\* The argument that follows -p in the command built for mode m.
PromptArg(m) == pcmd[m][3]

EndsWith(s, t) ==
    Len(s) >= Len(t) /\ SubSeq(s, Len(s) - Len(t) + 1, Len(s)) = t

\* C20 as stated: the prompt holds the diff directive whenever diff_range is
\* given, the file directive whenever files is non-empty, then the question,
\* and is the same for both modes.
C20_DirectiveWhenGiven ==
    \A m \in Modes :
        pcmd[m] # <<>> =>
            /\ pcmd[m][2] = <<"-p">>
            /\ PromptArg(m) = Composed(preq, preq.diff_range.given, preq.files # <<>>)

\* C20, amended: for every AskRequest the prompt passed to the agent is, in
\* this order, the diff-range directive if diff_range is given and not empty,
\* the file-focus directive if files is non-empty, then the verbatim question;
\* the question is always last, and both modes build the same prompt.
C20_DirectiveWhenNonEmpty ==
    /\ \A m \in Modes :
          pcmd[m] # <<>> =>
              /\ pcmd[m][2] = <<"-p">>
              /\ PromptArg(m) =
                     Composed(preq, preq.diff_range.given /\ preq.diff_range.val # <<>>,
                              preq.files # <<>>)
              /\ EndsWith(PromptArg(m), preq.question)
    /\ (pcmd["ask"] # <<>> /\ pcmd["stream"] # <<>>) =>
          PromptArg("ask") = PromptArg("stream")

\* C20 witness: a request with a diff range, two files and a question of two
\* paragraphs; both commands are built and carry the same three-part prompt.
C20_Witness ==
    /\ preq.files = << <<"y">>, <<"x">> >>
    /\ pcmd["ask"] # <<>> /\ pcmd["stream"] # <<>>
    /\ pcmd["ask"][9] = <<"json">> /\ pcmd["stream"][9] = <<"stream-json">>
    /\ PromptArg("stream") =
          <<"Consider the diff for range ", Backtick, "m", "..", "h", Backtick, ".",
            "\n\n", "Focus on these files: ", "y", ", ", "x", "\n\n",
            "q", "\n\n", "r">>

(***************************************************************************)
(* Properties of the token cache.                                          *)
(***************************************************************************)
\* Call j has returned the token its own claim obtained.
ReturnedClaimed(j) == cpc[j] = "returned" /\ cresp[j] = "200"

\* Call i claimed its token for the name of call j from a server process
\* older than the one j claimed from: what it saves is stale for j.
StaleFor(i, j) ==
    /\ cname[i] = cname[j]
    /\ cresp[i] = "200"
    /\ cepoch[i] < cepoch[j]

\* C21 as stated: once get_auth_token has returned a token it claimed, the
\* cache entry of its name holds exactly that token for as long as the server
\* process is the one it claimed from, so that a later get_auth_token for the
\* name, answered 410 by that server process, returns the same token.
C21_CacheHoldsClaimedToken ==
    \A j \in Calls :
        (ReturnedClaimed(j) /\ cepoch[j] = epoch) =>
            (cret[j] = ctoken[j] /\ cache[cname[j]] = cret[j])

C21_Inv ==
    \A j \in Calls :
        ReturnedClaimed(j) =>
            /\ cret[j] = ctoken[j]
            /\ cepoch[j] = epoch =>
                  \/ cache[cname[j]] = cret[j]
                  \/ \E i \in Calls : ReturnedClaimed(i) /\ StaleFor(i, j)
                                         /\ cache[cname[j]] = cret[i]

C21_Step ==
    \A k \in Calls :
        /\ (cpc[k] = "claimed" /\ cpc'[k] = "returned") =>
              cache'[cname[k]] = cret'[k]
        /\ (cpc[k] = "fallback" /\ cpc'[k] = "returned") =>
              \A j \in Calls :
                  (ReturnedClaimed(j) /\ cname[j] = cname[k] /\ cepoch[j] = cepoch[k]
                     /\ cepoch[j] = epoch) =>
                      \/ cret'[k] = cret[j]
                      \/ \E i \in Calls : ReturnedClaimed(i) /\ StaleFor(i, j)
                                             /\ cret'[k] = cret[i]

\* C21, amended: when get_auth_token returns a token it claimed, the cache
\* entry of its name holds exactly that token, and a later get_auth_token for
\* the same name against the same server process returns the same token,
\* unless a call for that name that had claimed its token from an earlier
\* server process saved it in between.
C21_CacheHoldsClaimedUnlessStaleSave == []C21_Inv /\ [][C21_Step]_vars

\* C21 witness: a call claimed the token for cs1 and returned it, a call for
\* cs2 was answered 410, and a later call for cs1 against the same server
\* process was answered 410 and returned the token of the first.
C21_Witness ==
    /\ ReturnedClaimed(1) /\ cname[1] = "cs1"
    /\ cname[2] = "cs2" /\ cresp[2] = "410"
    /\ cname[3] = "cs1" /\ cresp[3] = "410" /\ cpc[3] = "returned"
    /\ cepoch[3] = cepoch[1]
    /\ cret[3] = cret[1] /\ cret[1] # NoToken

(***************************************************************************)
(* The failure of wait_until_available.                                    *)
(***************************************************************************)
\* The message of the TimeoutError wait_until_available raises:
\* f"Codespace {codespace_name} did not become Available within
\* {CODESPACE_BOOT_TIMEOUT}s"
TimeoutMessage(name) ==
    <<"Codespace ", name, " did not become Available within ",
      Str(CODESPACE_BOOT_TIMEOUT), "s">>

\* C22: the failure raised when polling passes the deadline carries the
\* state the polling loop observed last.
C22_BootTimeoutCarriesLastState ==
    (fpc = "raised" /\ ferr = "TimeoutError") =>
        /\ n_poll >= 1
        /\ \E i \in 1..Len(TimeoutMessage(fname)) :
              TimeoutMessage(fname)[i] = last_state

\* The stdout kinds that json.loads does not turn into one result object.
Unstructured == {"empty", "garbage", "nonobject"}

\* What the claim asks of the answer to a CompletedProcess with the given
\* exit code and stdout.
C23_Answer(rc, out, st) ==
    /\ (rc # 0 /\ out = "empty" => st = 502)
    /\ (out \in Unstructured => st = 502)
    /\ (st = 200 => out = "object")

C23_Step ==
    \A r \in Reqs :
        (kind[r] = "ask" /\ pc[r] = "joined" /\ pc'[r] = "done"
         /\ tres[r].t = "completed")
            => C23_Answer(tres[r].rc, tres[r].out, status'[r])

\* C23: a buffered subprocess that exited within the deadline is answered 502
\* when it failed without output, 502 when its output is not one structured
\* result, and 200 only when its output parsed as a structured result.
C23_ExitedSubprocessAnswer == [][C23_Step]_vars

\* The place of request r's latest arrival at the gate, 0 if it has not arrived.
Ticket(r) ==
    IF \E i \in 1..Len(gate) : gate[i] = r
    THEN CHOOSE i \in 1..Len(gate) :
             gate[i] = r /\ \A j \in (i + 1)..Len(gate) : gate[j] # r
    ELSE 0

C24_Step ==
    \A r \in Reqs :
        acquired'[r] = acquired[r] + 1 =>
            \A q \in Reqs \ {r} :
                pc[q] = "queued" => (pc[r] = "queued" /\ Ticket(r) < Ticket(q))

\* C24: a request takes claude_lock only when every request still waiting for
\* it arrived at the gate later than it did, buffered or streaming alike.
C24_SlotGrantedInArrivalOrder == [][C24_Step]_vars

\* The lock has been released while one request waited, and a request of the
\* other kind reached the gate before the woken waiter ran.
C24_Witness ==
    /\ ~locked
    /\ Len(waiters) = 2
    /\ kind[waiters[1]] # kind[waiters[2]]
    /\ Ticket(waiters[1]) < Ticket(waiters[2])

\* Call k has returned a token and the server it contacted is still running.
ReturnedFromCurrent(k) == cpc[k] = "returned" /\ cepoch[k] = epoch

PassesBearerCheck(token) == VerifyAuth(ClientHeader(token), auth_token) = 0

\* C25: every token get_auth_token returns passes the bearer check of the
\* server instance the call contacted, whatever restarts and claims came before.
C25_ReturnedTokenPassesBearerCheck ==
    \A k \in Calls : ReturnedFromCurrent(k) => PassesBearerCheck(cret[k])

====
